---- MODULE Spec2Model ----
(***************************************************************************)
(* Vector3 (math/vector3.js) and Sphere (math/sphere.js): the vector       *)
(* algebra and the ray-sphere intersection query.                          *)
(*                                                                         *)
(* JavaScript values.  A value is a record [k, p, q, d, r]:                *)
(*   k = "fin"    the real number (p + q*sqrt(d)) / r, in canonical form   *)
(*                (r > 0, d square-free, d = 0 iff q = 0, gcd(p,q,r) = 1); *)
(*   k = "root"   the non-negative square root of the irrational number    *)
(*                (p + q*sqrt(d)) / r;                                     *)
(*   k = "nan", "pinf", "ninf"   NaN, +Infinity, -Infinity;                *)
(*   k = "undef", "null", "str"  undefined, null, a non-numeric string;    *)
(*   k = "func"   a function object (a method that is not called);         *)
(*   k = "unrep"  a real number outside the representable domain (sums of  *)
(*                unrelated radicals): actions never produce one.          *)
(* The inputs are small integers, which doubles hold exactly, so every     *)
(* sum, product and comparison of the source is modelled without rounding; *)
(* Math.sqrt is modelled as the exact square root (the double is its       *)
(* correctly rounded value), and the sign of zero is not modelled.         *)
(***************************************************************************)
EXTENDS Integers, Sequences, FiniteSets, TLC

Abs(n) == IF n < 0 THEN -n ELSE n

Sgn(n) == IF n > 0 THEN 1 ELSE IF n < 0 THEN -1 ELSE 0

RECURSIVE Gcd(_, _)
Gcd(m, n) == IF n = 0 THEN m ELSE Gcd(n, m % n)

\* The largest s >= 1 with s*s dividing n (n > 0), searched from k upwards.
RECURSIVE SquarePart(_, _)
SquarePart(n, k) ==
    IF k * k > n THEN 1
    ELSE IF n % (k * k) = 0 THEN k * SquarePart(n \div (k * k), k)
    ELSE SquarePart(n, k + 1)

Special(kind) == [k |-> kind, p |-> 0, q |-> 0, d |-> 0, r |-> 1]

NaN == Special("nan")

PosInf == Special("pinf")

NegInf == Special("ninf")

Undefined == Special("undef")

Null == Special("null")

BadString == Special("str")

FunctionObject == Special("func")

Unrep == Special("unrep")

\* (p + q*sqrt(d)) / r divided through by g > 0, with the sign sg of r.
Scaled(p, q, d, r, g, sg) ==
    [k |-> "fin", p |-> (sg * p) \div g, q |-> (sg * q) \div g, d |-> d,
     r |-> (sg * r) \div g]

Reduced(p, q, d, r) ==
    Scaled(p, q, d, r, Gcd(Gcd(Abs(p), Abs(q)), Abs(r)), IF r < 0 THEN -1 ELSE 1)

\* (p + q*sqrt(d)) / r where s*s is the largest square dividing d
SquareFree(p, q, d, r, s) ==
    IF d = s * s THEN Reduced(p + q * s, 0, 0, r)
    ELSE Reduced(p, q * s, d \div (s * s), r)

\* The canonical form of (p + q*sqrt(d)) / r, for r # 0 and d >= 0.
Quad(p, q, d, r) ==
    IF q = 0 \/ d = 0 THEN Reduced(p, 0, 0, r)
    ELSE SquareFree(p, q, d, r, SquarePart(d, 2))

Num(n) == [k |-> "fin", p |-> n, q |-> 0, d |-> 0, r |-> 1]

Zero == Num(0)

\* ToNumber, as the arithmetic operators and isNaN apply it to an operand.
ToNumber(v) ==
    CASE v.k = "undef" -> NaN
      [] v.k = "str"   -> NaN
      [] v.k = "func"  -> NaN
      [] v.k = "null"  -> Zero
      [] OTHER         -> v

\* The sign (-1, 0, 1) of the real number (p + q*sqrt(d)) / r, r > 0.
SignQuad(p, q, d) ==
    IF q = 0 THEN Sgn(p)
    ELSE IF p = 0 THEN Sgn(q)
    ELSE IF Sgn(p) = Sgn(q) THEN Sgn(p)
    ELSE IF p > 0 THEN Sgn(p * p - q * q * d)
    ELSE Sgn(q * q * d - p * p)

\* The sign of a value that is a real number or an infinity.
SignOf(v) ==
    CASE v.k = "fin"  -> SignQuad(v.p, v.q, v.d)
      [] v.k = "root" -> 1
      [] v.k = "pinf" -> 1
      [] v.k = "ninf" -> -1
      [] OTHER        -> 0

IsInf(v) == v.k \in {"pinf", "ninf"}

InfOfSign(s) == IF s > 0 THEN PosInf ELSE NegInf

Compatible(x, y) == (x.q = 0) \/ (y.q = 0) \/ (x.d = y.d)

Radicand(x, y) == IF x.q # 0 THEN x.d ELSE y.d

\* x + y on numbers
AddNumbers(x, y) ==
    IF x.k = "nan" \/ y.k = "nan" THEN NaN
    ELSE IF x.k = "unrep" \/ y.k = "unrep" THEN Unrep
    ELSE IF IsInf(x) /\ IsInf(y) THEN (IF x.k = y.k THEN x ELSE NaN)
    ELSE IF IsInf(x) THEN x
    ELSE IF IsInf(y) THEN y
    ELSE IF x.k = "root" \/ y.k = "root" \/ ~Compatible(x, y) THEN Unrep
    ELSE Quad(x.p * y.r + y.p * x.r, x.q * y.r + y.q * x.r, Radicand(x, y),
              x.r * y.r)

\* x + y
Add(a, b) == AddNumbers(ToNumber(a), ToNumber(b))

\* x * y on numbers
MulNumbers(x, y) ==
    IF x.k = "nan" \/ y.k = "nan" THEN NaN
    ELSE IF x.k = "unrep" \/ y.k = "unrep" THEN Unrep
    ELSE IF IsInf(x) \/ IsInf(y)
    THEN (IF SignOf(x) * SignOf(y) = 0 THEN NaN
          ELSE InfOfSign(SignOf(x) * SignOf(y)))
    ELSE IF x.k = "root" \/ y.k = "root" \/ ~Compatible(x, y) THEN Unrep
    ELSE Quad(x.p * y.p + x.q * y.q * Radicand(x, y), x.p * y.q + x.q * y.p,
              Radicand(x, y), x.r * y.r)

\* x * y
Mul(a, b) == MulNumbers(ToNumber(a), ToNumber(b))

\* -x
Neg(a) == MulNumbers(ToNumber(a), Num(-1))

\* x - y
Sub(a, b) == AddNumbers(ToNumber(a), Neg(b))

\* x / y on numbers; a zero divisor is +0 wherever the source divides.
DivNumbers(x, y) ==
    IF x.k = "nan" \/ y.k = "nan" THEN NaN
    ELSE IF x.k = "unrep" \/ y.k = "unrep" THEN Unrep
    ELSE IF IsInf(x) /\ IsInf(y) THEN NaN
    ELSE IF IsInf(y) THEN Zero
    ELSE IF IsInf(x)
    THEN InfOfSign(SignOf(x) * (IF SignOf(y) < 0 THEN -1 ELSE 1))
    ELSE IF SignOf(y) = 0
    THEN (IF SignOf(x) = 0 THEN NaN ELSE InfOfSign(SignOf(x)))
    ELSE IF x.k = "root" \/ y.k = "root" \/ ~Compatible(x, y) THEN Unrep
    ELSE Quad((x.p * y.p - x.q * y.q * Radicand(x, y)) * y.r,
              (x.q * y.p - x.p * y.q) * y.r, Radicand(x, y),
              x.r * (y.p * y.p - y.q * y.q * Radicand(x, y)))

\* x / y
Div(a, b) == DivNumbers(ToNumber(a), ToNumber(b))

\* Math.sqrt(x) on a number
SqrtNumber(x) ==
    CASE x.k = "nan"   -> NaN
      [] x.k = "unrep" -> Unrep
      [] x.k = "root"  -> Unrep
      [] x.k = "pinf"  -> PosInf
      [] x.k = "ninf"  -> NaN
      [] OTHER ->
           IF SignOf(x) < 0 THEN NaN
           ELSE IF SignOf(x) = 0 THEN Zero
           ELSE IF x.q = 0 THEN Quad(0, 1, x.p * x.r, x.r)
           ELSE [x EXCEPT !.k = "root"]

\* Math.sqrt(x)
Sqrt(a) == SqrtNumber(ToNumber(a))

\* The square of a real value: Sqrt's inverse on "root" values.
Square(x) == IF x.k = "root" THEN [x EXCEPT !.k = "fin"] ELSE MulNumbers(x, x)

\* The sign of x - y for real numbers x and y
CompareReals(x, y) ==
    IF x.k = "fin" /\ y.k = "fin" THEN SignOf(AddNumbers(x, Neg(y)))
    ELSE IF x.k = "fin" /\ SignOf(x) <= 0 THEN -1
    ELSE IF y.k = "fin" /\ SignOf(y) <= 0 THEN 1
    ELSE SignOf(AddNumbers(Square(x), Neg(Square(y))))

\* x < y on numbers; false when either side is NaN.
LessNumbers(x, y) ==
    IF x.k \in {"nan", "unrep"} \/ y.k \in {"nan", "unrep"} THEN FALSE
    ELSE IF IsInf(x) \/ IsInf(y)
    THEN (x.k = "ninf" /\ y.k # "ninf") \/ (y.k = "pinf" /\ x.k # "pinf")
    ELSE CompareReals(x, y) < 0

\* x < y
Less(a, b) == LessNumbers(ToNumber(a), ToNumber(b))

\* x > y
Greater(a, b) == LessNumbers(ToNumber(b), ToNumber(a))

\* x <= y on numbers; false when either side is NaN.
LessEqNumbers(x, y) ==
    /\ x.k \notin {"nan", "unrep"}
    /\ y.k \notin {"nan", "unrep"}
    /\ ~LessNumbers(y, x)

\* x <= y
LessEq(a, b) == LessEqNumbers(ToNumber(a), ToNumber(b))

\* Math.min(x, y) on numbers
MinNumbers(x, y) ==
    IF x.k = "nan" \/ y.k = "nan" THEN NaN
    ELSE IF LessNumbers(y, x) THEN y ELSE x

\* Math.min(x, y)
Min(a, b) == MinNumbers(ToNumber(a), ToNumber(b))

\* isNaN(x)
IsNaN(v) == ToNumber(v).k = "nan"

\* typeof x === 'number'
IsNumberType(v) == v.k \in {"fin", "root", "nan", "pinf", "ninf"}

(***************************************************************************)
(* Objects.  The heap is the sequence of the Vector3 objects allocated so  *)
(* far, a reference is an index into it, and 0 stands for a value that is  *)
(* not a Vector3 (null).  A method that mutates its receiver returns the   *)
(* heap it leaves; one that allocates returns [h, ref].                    *)
(***************************************************************************)
V3(x, y, z) == [x |-> x, y |-> y, z |-> z]

\* A parameter's default value: constructor(x = 0, y = 0, z = 0).
Default(v) == IF v.k = "undef" THEN Zero ELSE v

\* new Vector3(x, y, z)
NewVector3(h, x, y, z) ==
    [h |-> Append(h, V3(Default(x), Default(y), Default(z))), ref |-> Len(h) + 1]

\* v instanceof Vector3
IsVector3(h, ref) == ref \in 1..Len(h)

\* this.set(x, y, z)
VSet(h, this, x, y, z) == [h EXCEPT ![this] = V3(x, y, z)]

\* this.clone()
VClone(h, this) == NewVector3(h, h[this].x, h[this].y, h[this].z)

\* this.copy(other), other given by its components
VCopy(h, this, other) == [h EXCEPT ![this] = V3(other.x, other.y, other.z)]

\* this.negate()
VNegate(h, this) == [h EXCEPT ![this] = V3(Neg(@.x), Neg(@.y), Neg(@.z))]

\* this.add(v), v given by its components
VAdd(h, this, v) ==
    [h EXCEPT ![this] = V3(Add(@.x, v.x), Add(@.y, v.y), Add(@.z, v.z))]

\* this.subtract(v), v given by its components
VSubtract(h, this, v) ==
    [h EXCEPT ![this] = V3(Sub(@.x, v.x), Sub(@.y, v.y), Sub(@.z, v.z))]

\* this.multiplyScalar(scalar)
VMultiplyScalar(h, this, scalar) ==
    [h EXCEPT ![this] = V3(Mul(@.x, scalar), Mul(@.y, scalar), Mul(@.z, scalar))]

\* this.lengthSqr(), of the components v (0 + x*x is x*x)
LengthSqr(v) == Add(Add(Mul(v.x, v.x), Mul(v.y, v.y)), Mul(v.z, v.z))

\* this.length(), of the components v
Length(v) == Sqrt(Add(Add(Mul(v.x, v.x), Mul(v.y, v.y)), Mul(v.z, v.z)))

\* normalize, lines 125-129, given its locals and this.length()
NormalizeWith(v, lengthSqr, ogXSquared, ogYSquared, ogZSquared, length) ==
    IF Greater(length, Zero)
    THEN V3(Sqrt(Div(ogXSquared, lengthSqr)),
            Sqrt(Div(ogYSquared, lengthSqr)),
            Sqrt(Div(ogZSquared, lengthSqr)))
    ELSE v

\* The components this.normalize() leaves in a vector with components v.
NormalizedComponents(v) ==
    NormalizeWith(v, LengthSqr(v), Mul(v.x, v.x), Mul(v.y, v.y), Mul(v.z, v.z),
                  Length(v))

\* this.normalize()
VNormalize(h, this) == [h EXCEPT ![this] = NormalizedComponents(@)]

\* this.dot(other), on components
Dot(v, other) ==
    Add(Add(Mul(v.x, other.x), Mul(v.y, other.y)), Mul(v.z, other.z))

\* this.rescale(newScale)
VRescale(h, this, newScale) ==
    IF Greater(Length(h[this]), Zero)
    THEN VMultiplyScalar(VNormalize(h, this), this, newScale)
    ELSE h

\* Vector3.fromTo(fromPoint, toPoint)
FromTo(h, fromPoint, toPoint) ==
    [h   |-> [NewVector3(h, Undefined, Undefined, Undefined).h
                 EXCEPT ![Len(h) + 1] =
                     V3(Sub(h[toPoint].x, h[fromPoint].x),
                        Sub(h[toPoint].y, h[fromPoint].y),
                        Sub(h[toPoint].z, h[fromPoint].z))],
     ref |-> NewVector3(h, Undefined, Undefined, Undefined).ref]

(***************************************************************************)
(* Sphere                                                                  *)
(***************************************************************************)
NullVector == V3(Null, Null, Null)

\* The components behind a reference; null has none.
Deref(h, ref) == IF ref \in 1..Len(h) THEN h[ref] ELSE NullVector

\* ClonedCenter keeping the caller's vector itself: this.center = center.
AliasedCenter(h, center) ==
    IF IsVector3(h, center) THEN [h |-> h, ref |-> center]
    ELSE NewVector3(h, Zero, Zero, Zero)

\* constructor, lines 4-8: the center is a clone of a Vector3 argument.
ClonedCenter(h, center) ==
    IF IsVector3(h, center) THEN VClone(h, center)
    ELSE NewVector3(h, Zero, Zero, Zero)

\* constructor, lines 46-49
RecheckedRadius(radius) ==
    IF ~IsNumberType(radius) \/ IsNaN(radius) THEN Num(1) ELSE radius

\* constructor, lines 9-13, then lines 46-49
ValidRadius(radius) ==
    RecheckedRadius(IF IsNumberType(radius) /\ ~IsNaN(radius) THEN radius
                    ELSE Num(1))

\* constructor, lines 18-41: whether the stored center is replaced by zero.
RejectedComponents(v) ==
    \/ IsNaN(v.x) \/ IsNaN(v.y) \/ IsNaN(v.z)
    \/ v.x = Undefined \/ v.y = Undefined \/ v.z = Undefined
    \/ v.x = Null \/ v.y = Null \/ v.z = Null
    \/ v.x = PosInf \/ v.y = PosInf \/ v.z = PosInf
    \/ v.x = NegInf \/ v.y = NegInf \/ v.z = NegInf

CenterRejected(h, center) ==
    ~IsVector3(h, center) \/ RejectedComponents(Deref(h, center))

\* constructor, lines 18-49, for the center lines 4-8 stored
ValidatedSphere(first, radius) ==
    IF CenterRejected(first.h, first.ref)
    THEN [h      |-> NewVector3(first.h, Zero, Zero, Zero).h,
          sphere |-> [center |-> NewVector3(first.h, Zero, Zero, Zero).ref,
                      radius |-> ValidRadius(radius)]]
    ELSE [h      |-> first.h,
          sphere |-> [center |-> first.ref, radius |-> ValidRadius(radius)]]

\* new Sphere(center, radius): [h, sphere]
NewSphere(h, center, radius) == ValidatedSphere(ClonedCenter(h, center), radius)

NoHit == [hit |-> FALSE, point |-> 0, normal |-> 0, distance |-> Null]

\* SelectRoot taking the farther of two roots in front of the origin.
SelectRootFar(t1, t2) ==
    IF Greater(t1, Zero) /\ Greater(t2, Zero)
    THEN (IF Less(t1, t2) THEN t2 ELSE t1)
    ELSE IF Greater(t1, Zero) THEN t1
    ELSE IF Greater(t2, Zero) THEN t2
    ELSE Null

\* SelectRoot accepting a root at the origin: t >= 0 for t > 0.
SelectRootNonNegative(t1, t2) ==
    IF LessEq(Zero, t1) /\ LessEq(Zero, t2) THEN Min(t1, t2)
    ELSE IF LessEq(Zero, t1) THEN t1
    ELSE IF LessEq(Zero, t2) THEN t2
    ELSE Null

\* SelectRoot testing !(t <= 0) for t > 0, which NaN passes.
SelectRootNotLessEq(t1, t2) ==
    IF ~LessEq(t1, Zero) /\ ~LessEq(t2, Zero) THEN Min(t1, t2)
    ELSE IF ~LessEq(t1, Zero) THEN t1
    ELSE IF ~LessEq(t2, Zero) THEN t2
    ELSE Null

\* raycast, lines 114-121: the root the hit is taken at, or null.
SelectRoot(t1, t2) ==
    IF Greater(t1, Zero) /\ Greater(t2, Zero) THEN Min(t1, t2)
    ELSE IF Greater(t1, Zero) THEN t1
    ELSE IF Greater(t2, Zero) THEN t2
    ELSE Null

\* IntersectionPoint without the clone of the origin: ray.origin.add(...).
IntersectionPointInPlace(h, ry, t) ==
    [h   |-> VAdd(VMultiplyScalar(VClone(h, ry.direction).h, Len(h) + 1, t),
                  ry.origin,
                  VMultiplyScalar(VClone(h, ry.direction).h, Len(h) + 1, t)[Len(h) + 1]),
     ref |-> ry.origin]

\* ray.direction.clone().multiplyScalar(t), for the clone d
ScaledClone(d, t) == [h |-> VMultiplyScalar(d.h, d.ref, t), ref |-> d.ref]

\* point.add(scaled), for the scaled clone of the direction
AddedTo(point, scaled) ==
    [h |-> VAdd(scaled.h, point, scaled.h[scaled.ref]), ref |-> point]

\* raycast, line 125: ray.origin.clone().add(ray.direction.clone().multiplyScalar(t))
IntersectionPoint(h, ry, t) ==
    AddedTo(VClone(h, ry.origin).ref,
            ScaledClone(VClone(VClone(h, ry.origin).h, ry.direction), t))

\* OriginInside with the comparison reversed.
OriginInsideReversed(originToCenter, radius) == Less(radius, Length(originToCenter))

\* raycast, line 137: originToCenter.length() < this.radius
OriginInside(originToCenter, radius) == Less(Length(originToCenter), radius)

\* raycast, line 142: normal.length <= 0, where normal.length is the method
\* itself, not a call of it.
NormalRejected(normal) == LessEq(FunctionObject, Zero)

\* raycast, lines 109-111
RootsWith(a, b, discriminant, sqrtDiscriminant) ==
    [discriminant |-> discriminant,
     t1 |-> Div(Sub(Neg(b), sqrtDiscriminant), Mul(Num(2), a)),
     t2 |-> Div(Add(Neg(b), sqrtDiscriminant), Mul(Num(2), a))]

\* raycast, lines 102-111
RootsOf(a, b, discriminant) == RootsWith(a, b, discriminant, Sqrt(discriminant))

\* raycast, line 102, for the coefficients of lines 99-101
Quadratic(a, b, c) == RootsOf(a, b, Sub(Mul(b, b), Mul(Mul(Num(4), a), c)))

\* The discriminant and the roots t1 and t2 of lines 99-111, from the
\* components of center-to-origin and of the direction.
Roots(centerToOrigin, direction, radius) ==
    Quadratic(Dot(direction, direction),
              Mul(Num(2), Dot(centerToOrigin, direction)),
              Sub(Dot(centerToOrigin, centerToOrigin), Mul(radius, radius)))

\* raycast, lines 130-155, for the selected root t, the intersection point ip
\* and the normal n; h is the heap line 128 leaves.
RaycastAt(h, sph, originToCenter, t, ip, n) ==
    IF Less(t, Zero) THEN [h |-> h, result |-> NoHit]
    ELSE IF OriginInside(h[originToCenter], sph.radius)
    THEN [h |-> h, result |-> NoHit]
    ELSE IF NormalRejected(h[n])
    THEN [h |-> h, result |-> NoHit]
    ELSE [h      |-> h,
          result |-> [hit |-> TRUE, point |-> ip, normal |-> n, distance |-> t]]

\* raycast, line 128: Vector3.fromTo(this.center, intersectionPoint).normalize()
RaycastNormalize(sph, originToCenter, t, ip, n) ==
    RaycastAt(VNormalize(n.h, n.ref), sph, originToCenter, t, ip, n.ref)

\* raycast, lines 123-128
RaycastNormal(h, sph, ry, originToCenter, t, ip) ==
    IF t = Null THEN [h |-> h, result |-> NoHit]
    ELSE RaycastNormalize(sph, originToCenter, t, ip.ref,
                          FromTo(ip.h, sph.center, ip.ref))

\* raycast, lines 104-125, for the roots q of the quadratic
RaycastRoots(h, sph, ry, originToCenter, q, t) ==
    IF Less(q.discriminant, Zero) THEN [h |-> h, result |-> NoHit]
    ELSE RaycastNormal(h, sph, ry, originToCenter, t,
                       IF t = Null THEN [h |-> h, ref |-> 0]
                       ELSE IntersectionPoint(h, ry, t))

\* raycast, lines 99-121
RaycastQuadratic(h, sph, ry, originToCenter, q) ==
    RaycastRoots(h, sph, ry, originToCenter, q,
                 IF Less(q.discriminant, Zero) THEN Null
                 ELSE SelectRoot(q.t1, q.t2))

\* raycast, line 98: centerToOrigin = originToCenter.clone().negate()
RaycastNegated(sph, ry, originToCenter, cto) ==
    RaycastQuadratic(VNegate(cto.h, cto.ref), sph, ry, originToCenter,
                     Roots(VNegate(cto.h, cto.ref)[cto.ref],
                           cto.h[ry.direction], sph.radius))

\* raycast, line 97: originToCenter = Vector3.fromTo(ray.origin, this.center)
RaycastFrom(sph, ry, otc) ==
    RaycastNegated(sph, ry, otc.ref, VClone(otc.h, otc.ref))

\* sphere.raycast(ray): [h, result]
Raycast(h, sph, ry) == RaycastFrom(sph, ry, FromTo(h, ry.origin, sph.center))

(***************************************************************************)
(* State.                                                                  *)
(*   heap    the Vector3 objects allocated so far                          *)
(*   arg     the caller's vector c handed to new Sphere (0: not a Vector3) *)
(*   sphere  [center, radius]: the sphere's fields (center 0: no sphere)   *)
(*   ray     [origin, direction]: the caller's ray                         *)
(*   result  the record the last raycast returned                          *)
(*   steps   the number of operations called so far                        *)
(*   given   the argument values at construction time (history)            *)
(*   prev    the previous raycast's outcome, by value, and the heap size   *)
(*           before the last call (history)                                *)
(*   last    the last Vector3 method called on c, c's components before    *)
(*           it and the reference it returned (history)                    *)
(***************************************************************************)
VARIABLES heap, arg, sphere, ray, result, steps, given, prev, last

vars == <<heap, arg, sphere, ray, result, steps, given, prev, last>>

MaxCoord == 2

MaxRadius == 2

MaxCalls == 2

MaxOps == 2

Coords == (0 - MaxCoord)..MaxCoord

UnitCoords == {-1, 0, 1}

Radii == 0..MaxRadius

IntVector(x, y, z) == V3(Num(x), Num(y), Num(z))

Centers == {IntVector(0, 0, 0), IntVector(5, 0, 0), IntVector(0, -1, 1)}

Origins ==
    {IntVector(x, y, z) : x \in Coords, y \in UnitCoords, z \in Coords}
        \cup {IntVector(0, 0, -5)}

\* Directions up to the reflection y -> -y, which Origins covers.
Directions == {IntVector(x, y, z) : x \in UnitCoords, y \in {0, 1}, z \in UnitCoords}

Vectors == {IntVector(x, y, z) : x \in UnitCoords, y \in UnitCoords, z \in UnitCoords}

NoSphere == [center |-> 0, radius |-> Null]

NoRay == [origin |-> 0, direction |-> 0]

\* A result record by value: the components behind point and normal.
ResultValue(h, res) ==
    [hit |-> res.hit, point |-> Deref(h, res.point),
     normal |-> Deref(h, res.normal), distance |-> res.distance]

NoPrev == [value |-> ResultValue(<<>>, NoHit), mark |-> 0]

NoLast == [op |-> "none", pre |-> NullVector, ret |-> 0]

NoGiven ==
    [center |-> NullVector, radius |-> Null, origin |-> NullVector,
     direction |-> NullVector]

(***************************************************************************)
(* Spec: a caller builds a sphere and a ray and queries the sphere.        *)
(***************************************************************************)
Init ==
    \E cv \in Centers, rv \in Radii, ov \in Origins, dv \in Directions :
        LET c == NewVector3(<<>>, cv.x, cv.y, cv.z)
            s == NewSphere(c.h, c.ref, Num(rv))
            o == NewVector3(s.h, ov.x, ov.y, ov.z)
            d == NewVector3(o.h, dv.x, dv.y, dv.z)
        IN  /\ heap = d.h
            /\ arg = c.ref
            /\ sphere = s.sphere
            /\ ray = [origin |-> o.ref, direction |-> d.ref]
            /\ result = NoHit
            /\ steps = 0
            /\ given = [center |-> cv, radius |-> Num(rv), origin |-> ov,
                        direction |-> dv]
            /\ prev = NoPrev
            /\ last = NoLast

\* result = sphere.raycast(ray)
RaycastCall ==
    /\ steps < MaxCalls
    /\ LET rc == Raycast(heap, sphere, ray)
       IN  /\ heap' = rc.h
           /\ result' = rc.result
    /\ prev' = [value |-> ResultValue(heap, result), mark |-> Len(heap)]
    /\ steps' = steps + 1
    /\ UNCHANGED <<arg, sphere, ray, given, last>>

Next == RaycastCall

Spec == Init /\ [][Next]_vars

(***************************************************************************)
(* SpecVector: a caller builds a sphere around its vector c and then calls *)
(* Vector3's mutating methods on c.                                        *)
(***************************************************************************)
ArgVectors == {IntVector(0, 0, 0), IntVector(1, -2, 0)}

Scalars == {Num(-2), Num(0), Num(3)}

Representable(v) == v.x.k # "unrep" /\ v.y.k # "unrep" /\ v.z.k # "unrep"

InitVector ==
    \E cv \in Vectors :
        LET c == NewVector3(<<>>, cv.x, cv.y, cv.z)
            s == NewSphere(c.h, c.ref, Num(1))
        IN  /\ heap = s.h
            /\ arg = c.ref
            /\ sphere = s.sphere
            /\ ray = NoRay
            /\ result = NoHit
            /\ steps = 0
            /\ given = [center |-> cv, radius |-> Num(1), origin |-> NullVector,
                        direction |-> NullVector]
            /\ prev = NoPrev
            /\ last = NoLast

\* One call c.<op>(...) that leaves the heap h: every method returns this.
Called(op, h) ==
    /\ steps < MaxOps
    /\ Representable(h[arg])
    /\ heap' = h
    /\ last' = [op |-> op, pre |-> heap[arg], ret |-> arg]
    /\ steps' = steps + 1
    /\ UNCHANGED <<arg, sphere, ray, result, given, prev>>

SetCall == \E v \in ArgVectors : Called("set", VSet(heap, arg, v.x, v.y, v.z))

CopyCall == \E v \in ArgVectors : Called("copy", VCopy(heap, arg, v))

AddCall == \E v \in ArgVectors : Called("add", VAdd(heap, arg, v))

SubtractCall == \E v \in ArgVectors : Called("subtract", VSubtract(heap, arg, v))

NegateCall == Called("negate", VNegate(heap, arg))

MultiplyScalarCall ==
    \E k \in Scalars : Called("multiplyScalar", VMultiplyScalar(heap, arg, k))

NormalizeCall == Called("normalize", VNormalize(heap, arg))

RescaleCall == \E k \in Scalars : Called("rescale", VRescale(heap, arg, k))

NextVector ==
    \/ SetCall
    \/ CopyCall
    \/ AddCall
    \/ SubtractCall
    \/ NegateCall
    \/ MultiplyScalarCall
    \/ NormalizeCall
    \/ RescaleCall

SpecVector == InitVector /\ [][NextVector]_vars

(***************************************************************************)
(* SpecConstruct: new Sphere(center, radius) on arbitrary arguments.       *)
(***************************************************************************)
Components ==
    {Num(-1), Num(0), Num(2), NaN, Undefined, Null, PosInf, NegInf}

RadiusArgs ==
    {Num(-1), Num(0), Num(2), NaN, PosInf, NegInf, BadString, Null, Undefined}

InitConstruct ==
    /\ \/ \E x \in Components, y \in Components, z \in Components :
            LET c == NewVector3(<<>>, Zero, Zero, Zero)
            IN  /\ heap = VSet(c.h, c.ref, x, y, z)
                /\ arg = c.ref
       \/ /\ heap = <<>>
          /\ arg = 0
    /\ sphere = NoSphere
    /\ ray = NoRay
    /\ result = NoHit
    /\ steps = 0
    /\ given = NoGiven
    /\ prev = NoPrev
    /\ last = NoLast

\* sphere = new Sphere(c, radius)
Construct ==
    /\ sphere = NoSphere
    /\ \E rv \in RadiusArgs :
          LET s == NewSphere(heap, arg, rv)
          IN  /\ heap' = s.h
              /\ sphere' = s.sphere
              /\ given' = [given EXCEPT !.center = Deref(heap, arg), !.radius = rv]
    /\ steps' = steps + 1
    /\ UNCHANGED <<arg, ray, result, prev, last>>

NextConstruct == Construct

SpecConstruct == InitConstruct /\ [][NextConstruct]_vars

(***************************************************************************)
(* Properties of raycast, stated on the arguments the sphere and the ray   *)
(* were built from (given) and on the returned record by value.            *)
(***************************************************************************)
Queried == steps > 0

Returned == ResultValue(heap, result)

CleanNoHit == ResultValue(<<>>, NoHit)

\* O - C for the given ray origin O and sphere center C
OriginMinusCenter ==
    V3(Sub(given.origin.x, given.center.x), Sub(given.origin.y, given.center.y),
       Sub(given.origin.z, given.center.z))

\* The quadratic a*t^2 + b*t + c = 0 of section 4.2
QuadA == Dot(given.direction, given.direction)

QuadB == Mul(Num(2), Dot(OriginMinusCenter, given.direction))

QuadC == Sub(Dot(OriginMinusCenter, OriginMinusCenter),
             Mul(given.radius, given.radius))

Discriminant == Sub(Mul(QuadB, QuadB), Mul(Num(4), Mul(QuadA, QuadC)))

IsRoot(t) == Add(Add(Mul(QuadA, Mul(t, t)), Mul(QuadB, t)), QuadC) = Zero

\* With a > 0 and a discriminant >= 0 both roots are <= 0 exactly when their
\* sum -b/a is <= 0 and their product c/a is >= 0.
SomeRootPositive ==
    /\ SignOf(Discriminant) >= 0
    /\ ~(SignOf(QuadB) >= 0 /\ SignOf(QuadC) >= 0)

ZeroDirection == given.direction = IntVector(0, 0, 0)

\* The ray origin is strictly closer to the center than the radius.
InsideSphere == SignOf(given.radius) > 0 /\ SignOf(QuadC) < 0

\* The sum of the squares of the components
NormSquared(v) == Add(Add(Square(v.x), Square(v.y)), Square(v.z))

\* u = v / |v| for a component u of the normalized vector and v of the original
IsComponentOverLength(u, v, lengthSquared) ==
    /\ SignOf(u) = SignOf(v)
    /\ u.k \in {"fin", "root"}
    /\ Mul(Square(u), lengthSquared) = Square(v)

IsUnitVectorOf(u, v) ==
    /\ IsComponentOverLength(u.x, v.x, NormSquared(v))
    /\ IsComponentOverLength(u.y, v.y, NormSquared(v))
    /\ IsComponentOverLength(u.z, v.z, NormSquared(v))

PointMinusCenter(res) ==
    V3(Sub(res.point.x, given.center.x), Sub(res.point.y, given.center.y),
       Sub(res.point.z, given.center.z))

\* C1: for radius > 0, a non-zero direction and an origin not inside the
\* sphere, raycast hits exactly when the discriminant is >= 0 and some root is
\* strictly positive; the distance is then the smallest strictly positive
\* root t and the point is origin + t * direction.
C1_HitAtSmallestPositiveRoot ==
    (Queried /\ SignOf(given.radius) > 0 /\ ~ZeroDirection /\ ~InsideSphere) =>
        LET t     == Returned.distance
            other == Sub(Div(Mul(QuadB, Num(-1)), QuadA), t)
        IN  /\ Returned.hit <=> SomeRootPositive
            /\ ~Returned.hit => Returned = CleanNoHit
            /\ Returned.hit =>
                  /\ IsRoot(t)
                  /\ Greater(t, Zero)
                  /\ ~(Greater(other, Zero) /\ Less(other, t))
                  /\ Returned.point =
                        V3(Add(given.origin.x, Mul(t, given.direction.x)),
                           Add(given.origin.y, Mul(t, given.direction.y)),
                           Add(given.origin.z, Mul(t, given.direction.z)))

\* A hit with two distinct roots along a direction that is not of unit length.
C1_Witness ==
    /\ Queried /\ SignOf(given.radius) > 0 /\ ~InsideSphere
    /\ Returned.hit
    /\ SignOf(Discriminant) > 0
    /\ Greater(QuadA, Num(1))
    /\ Returned.distance.q # 0

\* C2: whenever raycast hits, the normal is (point - center) divided by its
\* length, so each component has the sign of the matching component of
\* point - center.
C2_NormalIsUnitOutward ==
    (Queried /\ Returned.hit) =>
        IsUnitVectorOf(Returned.normal, PointMinusCenter(Returned))

\* C3: a ray whose origin lies inside the sphere never hits.
C3_OriginInsideNeverHits ==
    (Queried /\ InsideSphere) => ~Returned.hit

\* An origin inside the sphere, a root in front of it, and no hit.
C3_Witness ==
    /\ Queried /\ InsideSphere /\ ~ZeroDirection
    /\ SomeRootPositive
    /\ Returned = CleanNoHit

\* C7: raycast returns either hit=false with point, normal and distance null,
\* or hit=true with a Vector3 point, a Vector3 normal and a number distance
\* that is strictly positive.
C7_TwoOutcomes ==
    Queried =>
        \/ /\ ~result.hit
           /\ result = NoHit
        \/ /\ result.hit
           /\ IsVector3(heap, result.point)
           /\ IsVector3(heap, result.normal)
           /\ result.distance.k \in {"fin", "root"}
           /\ SignOf(result.distance) > 0

\* A hit, and a miss from an origin on the sphere's surface.
C7_Witness ==
    /\ steps = MaxCalls
    /\ \/ result.hit /\ ~(SignOf(QuadC) = 0)
       \/ ~result.hit /\ SignOf(QuadC) = 0 /\ ~ZeroDirection

\* C8: raycast leaves the ray's origin and direction and the sphere's center
\* and radius unchanged, returns point and normal in vectors allocated by the
\* call that alias none of them, and returns an equal result when repeated.
C8_ReadOnlyAndRepeatable ==
    Queried =>
        /\ heap[ray.origin] = given.origin
        /\ heap[ray.direction] = given.direction
        /\ heap[sphere.center] = given.center
        /\ heap[arg] = given.center
        /\ sphere.radius = given.radius
        /\ result.hit =>
              /\ result.point > prev.mark
              /\ result.normal > prev.mark
              /\ result.point # result.normal
              /\ {result.point, result.normal}
                    \cap {ray.origin, ray.direction, sphere.center, arg} = {}
        /\ steps > 1 => Returned = prev.value

\* The same query made twice, hitting both times.
C8_Witness == steps > 1 /\ result.hit /\ prev.value.hit

\* C9: every result with hit=true carries a normal of length > 0.
C9_NoDegenerateNormal ==
    (Queried /\ Returned.hit) => SignOf(NormSquared(Returned.normal)) > 0

\* C10 as stated: for a zero direction the division by zero reaches the
\* result, whose fields carry NaN or Infinity, instead of a clean no-hit.
C10_NaNReachesResult ==
    (Queried /\ ZeroDirection) =>
        /\ Returned # CleanNoHit
        /\ \E v \in {Returned.distance, Returned.point.x, Returned.point.y,
                     Returned.point.z, Returned.normal.x, Returned.normal.y,
                     Returned.normal.z} : v.k \in {"nan", "pinf", "ninf"}

\* C10 amended: for a zero direction both roots are NaN (0/0), they fail the
\* tests for a root in front of the origin, and raycast returns the clean
\* no-hit record.
C10_ZeroDirectionIsCleanNoHit ==
    (Queried /\ ZeroDirection) =>
        /\ Roots(OriginMinusCenter, given.direction, given.radius).t1 = NaN
        /\ Roots(OriginMinusCenter, given.direction, given.radius).t2 = NaN
        /\ Returned = CleanNoHit

\* A zero direction from an origin outside the sphere.
C10_Witness ==
    /\ Queried /\ ZeroDirection /\ SignOf(QuadC) > 0
    /\ Returned = CleanNoHit

(***************************************************************************)
(* Properties of Vector3.normalize and of the constructor.                 *)
(***************************************************************************)
\* C4: normalize divides each component by the original length when it is
\* not zero (signs kept, length 1 afterwards), leaves the zero vector as it
\* is, and returns its receiver.
C4_NormalizeDividesByLength ==
    (last.op = "normalize") =>
        /\ last.ret = arg
        /\ IF SignOf(NormSquared(last.pre)) = 0
           THEN heap[arg] = last.pre
           ELSE /\ IsUnitVectorOf(heap[arg], last.pre)
                /\ NormSquared(heap[arg]) = Num(1)

\* C5: the constructed center is (0,0,0) when the argument is not a Vector3 or
\* has a NaN, undefined, null or infinite component, and the argument's
\* components otherwise; the radius is 1 when the argument is not a finite
\* number, and the argument otherwise.
C5_DefaultsForInvalidInput ==
    (sphere # NoSphere) =>
        LET invalid == {NaN, Undefined, Null, PosInf, NegInf}
            c       == given.center
        IN  /\ IsVector3(heap, sphere.center)
            /\ heap[sphere.center] =
                  IF arg = 0 \/ c.x \in invalid \/ c.y \in invalid \/ c.z \in invalid
                  THEN IntVector(0, 0, 0)
                  ELSE c
            /\ sphere.radius =
                  IF given.radius.k = "fin" THEN given.radius ELSE Num(1)

\* C6: whatever mutating methods are called on c after new Sphere(c, r), the
\* sphere's center keeps the components c had at construction time.
C6_CenterIsIndependentCopy ==
    /\ sphere.center # arg
    /\ heap[sphere.center] = given.center

\* c has been changed by two or more calls, a normalize among them.
C6_Witness ==
    /\ steps > 1
    /\ heap[arg] # given.center
    /\ last.op \in {"normalize", "rescale", "set"}

====
